---- MODULE Spec2Model ----
(***************************************************************************)
(* Model of dta_xlsform/converter.py: the DataToXLSForm converter and the  *)
(* data_to_xlsform entry point.                                            *)
(*                                                                         *)
(* Text that the code inspects character by character (paths, file types,  *)
(* form ids and titles) is a sequence of one-character strings.  Column    *)
(* names, list names, field types and labels are TLA+ strings joined with  *)
(* \o.  A Python dict is a sequence of <<key, value>> pairs with distinct  *)
(* keys, in insertion order.  A Python Optional is <<>> (None) or <<v>>.   *)
(***************************************************************************)
EXTENDS Integers, Sequences, FiniteSets, TLC

\* ------------------------------------------------------------------------
\* Bounds of the model
\* ------------------------------------------------------------------------
MaxCols == 2
MaxCodes == 2
MaxStem == 2

\* ------------------------------------------------------------------------
\* Python values
\* ------------------------------------------------------------------------
None == <<>>
Some(v) == <<v>>

PyNone == [t |-> "None"]
PyStr(s) == [t |-> "str", s |-> s]
PyDict(items) == [t |-> "dict", items |-> items]

\* bool(x) of a label value or a dict
Truthy(x) ==
    CASE x.t = "None" -> FALSE
      [] x.t = "str" -> x.s # ""
      [] x.t = "dict" -> x.items # <<>>

\* dict operations on sequences of <<key, value>> pairs
DictHas(d, k) == \E i \in DOMAIN d : d[i][1] = k
DictGet(d, k) == d[CHOOSE i \in DOMAIN d : d[i][1] = k][2]
DictGetDefault(d, k, default) == IF DictHas(d, k) THEN DictGet(d, k) ELSE default
DictSet(d, k, v) ==
    IF DictHas(d, k)
    THEN [d EXCEPT ![CHOOSE i \in DOMAIN d : d[i][1] = k] = <<k, v>>]
    ELSE Append(d, <<k, v>>)
DictKeys(d) == [i \in DOMAIN d |-> d[i][1]]

\* ------------------------------------------------------------------------
\* Characters: str.lower, str.upper, str.replace, str.title
\* ------------------------------------------------------------------------
Lowers == <<"a","b","c","d","e","f","g","h","i","j","k","l","m",
            "n","o","p","q","r","s","t","u","v","w","x","y","z">>
Uppers == <<"A","B","C","D","E","F","G","H","I","J","K","L","M",
            "N","O","P","Q","R","S","T","U","V","W","X","Y","Z">>

IsLowerChar(c) == \E i \in DOMAIN Lowers : Lowers[i] = c
IsUpperChar(c) == \E i \in DOMAIN Uppers : Uppers[i] = c
IsCased(c) == IsLowerChar(c) \/ IsUpperChar(c)
LowerChar(c) == IF IsUpperChar(c) THEN Lowers[CHOOSE i \in DOMAIN Uppers : Uppers[i] = c] ELSE c
UpperChar(c) == IF IsLowerChar(c) THEN Uppers[CHOOSE i \in DOMAIN Lowers : Lowers[i] = c] ELSE c

Lower(s) == [i \in DOMAIN s |-> LowerChar(s[i])]
Upper(s) == [i \in DOMAIN s |-> UpperChar(s[i])]
Replace(s, old, new) == [i \in DOMAIN s |-> IF s[i] = old THEN new ELSE s[i]]

\* str.capitalize(): only the first character upper-cased, the rest lower-cased
Capitalize(s) == [i \in DOMAIN s |-> IF i = 1 THEN UpperChar(s[i]) ELSE LowerChar(s[i])]

\* str.title(): a cased character is upper-cased when the character before it
\* is not cased (or it is the first), and lower-cased otherwise.
Title(s) ==
    [i \in DOMAIN s |->
        IF i > 1 /\ IsCased(s[i - 1]) THEN LowerChar(s[i]) ELSE UpperChar(s[i])]

\* ------------------------------------------------------------------------
\* os.path (posix): basename, splitext
\* ------------------------------------------------------------------------
\* index of the last occurrence of c in s, 0 when there is none
LastIndex(s, c) ==
    IF \E i \in DOMAIN s : s[i] = c
    THEN CHOOSE i \in DOMAIN s : s[i] = c /\ \A j \in DOMAIN s : s[j] = c => j <= i
    ELSE 0

basename(p) == SubSeq(p, LastIndex(p, "/") + 1, Len(p))

\* splitext(p) = <<root, ext>>: the extension starts at the last dot of the
\* last path component, unless only dots precede it in that component.
splitext(p) ==
    LET sep == LastIndex(p, "/")
        dot == LastIndex(p, ".")
    IN  IF dot > sep /\ \E k \in (sep + 1)..(dot - 1) : p[k] # "."
        THEN <<SubSeq(p, 1, dot - 1), SubSeq(p, dot, Len(p))>>
        ELSE <<p, <<>> >>

\* ------------------------------------------------------------------------
\* Text literals
\* ------------------------------------------------------------------------
DTA == <<".", "d", "t", "a">>
SAV == <<".", "s", "a", "v">>
STATA == <<"s", "t", "a", "t", "a">>
SPSS == <<"s", "p", "s", "s">>

\* encodings tried by _read_file for a Stata file, in order
encodings == <<"utf-8", "windows-1252", "iso-8859-1", "latin1">>

\* ------------------------------------------------------------------------
\* pandas: dtype predicates and the DataFrame constructor
\* ------------------------------------------------------------------------
IntegerDtypes == {"int8", "int16", "int32", "int64", "uint8", "uint16", "uint32", "uint64"}
FloatDtypes == {"float16", "float32", "float64"}
BoolDtypes == {"bool"}

is_integer_dtype(dtype) == dtype \in IntegerDtypes
is_float_dtype(dtype) == dtype \in FloatDtypes
is_bool_dtype(dtype) == dtype \in BoolDtypes

\* pd.DataFrame(list of dicts): the columns are the keys of the dicts; an
\* empty list gives a frame with no rows and no columns.
DataFrame(rows, keys) == [columns |-> IF rows = <<>> THEN <<>> ELSE keys, rows |-> rows]

\* df[var_name].dtype for a table given as a sequence of [name, dtype]
ColumnDtype(table, var_name) ==
    table[CHOOSE i \in DOMAIN table : table[i].name = var_name].dtype

\* ------------------------------------------------------------------------
\* str(value) of a value-label code.  A code is an int, or a float with one
\* decimal digit: [sub |-> "int" | "float", whole |-> n, tenths |-> 0..9].
\* ------------------------------------------------------------------------
Digits == <<"0", "1", "2", "3", "4", "5", "6", "7", "8", "9">>

RECURSIVE StrNat(_)
StrNat(n) == IF n < 10 THEN Digits[n + 1] ELSE StrNat(n \div 10) \o Digits[(n % 10) + 1]

StrInt(n) == IF n < 0 THEN "-" \o StrNat(0 - n) ELSE StrNat(n)

str(value) ==
    IF value.sub = "int"
    THEN StrInt(value.whole)
    ELSE StrInt(value.whole) \o "." \o Digits[value.tenths + 1]

\* ------------------------------------------------------------------------
\* DataToXLSForm: the pure parts
\* ------------------------------------------------------------------------
\* type inference without the boolean rule
InferTypeWithoutBool(var_name, vlabels, table) ==
    IF DictHas(vlabels, var_name)
    THEN "select_one " \o var_name \o "_choices"
    ELSE LET dtype == ColumnDtype(table, var_name)
         IN  IF is_integer_dtype(dtype) THEN "integer"
             ELSE IF is_float_dtype(dtype) THEN "decimal"
             ELSE "text"

\* _infer_question_type
_infer_question_type(var_name, vlabels, table) ==
    IF DictHas(vlabels, var_name)
    THEN "select_one " \o var_name \o "_choices"
    ELSE LET dtype == ColumnDtype(table, var_name)
         IN  IF is_integer_dtype(dtype) THEN "integer"
             ELSE IF is_float_dtype(dtype) THEN "decimal"
             ELSE IF is_bool_dtype(dtype) THEN "select_one yes_no"
             ELSE "text"

\* the label of a survey row: variable_labels.get(var_name, var_name)
SurveyLabel(vlabs, var_name) == DictGetDefault(vlabs, var_name, PyStr(var_name))

\* one row of the survey sheet
SurveyRow(var_name, vlabs, vlabels, table) ==
    [type |-> _infer_question_type(var_name, vlabels, table),
     name |-> var_name,
     label |-> SurveyLabel(vlabs, var_name)]

\* a survey sheet with one row per entry of variable_labels
SurveySheetOverLabels(table, vlabs, vlabels) ==
    DataFrame([i \in DOMAIN vlabs |-> SurveyRow(vlabs[i][1], vlabs, vlabels, table)],
              <<"type", "name", "label">>)

\* generate_survey_sheet
generate_survey_sheet(table, vlabs, vlabels) ==
    DataFrame([i \in DOMAIN table |-> SurveyRow(table[i].name, vlabs, vlabels, table)],
              <<"type", "name", "label">>)

\* the two standard rows of the choices sheet
YesNoRows ==
    << [list_name |-> "yes_no", name |-> "1", label |-> "Yes"],
       [list_name |-> "yes_no", name |-> "0", label |-> "No"] >>

\* the column name itself as list name
BareListName(var_name) == var_name

\* list name of a column's choices
ChoiceListName(var_name) == var_name \o "_choices"

\* rows of one column's value labels, in the order of the dict
ChoiceRows(var_name, value_label_dict) ==
    [j \in DOMAIN value_label_dict |->
        [list_name |-> ChoiceListName(var_name),
         name |-> str(value_label_dict[j][1]),
         label |-> value_label_dict[j][2]]]

RECURSIVE ValueLabelRows(_)
ValueLabelRows(vlabels) ==
    IF vlabels = <<>> THEN <<>>
    ELSE ChoiceRows(Head(vlabels)[1], Head(vlabels)[2]) \o ValueLabelRows(Tail(vlabels))

\* generate_choices_sheet
generate_choices_sheet(vlabels) ==
    DataFrame(YesNoRows \o ValueLabelRows(vlabels), <<"list_name", "name", "label">>)

\* the default form id: the path's base name without its extension
DefaultFormId(path) == splitext(basename(path))[1]

\* the default form title of a form id
DefaultFormTitle(id) == Title(Replace(id, "_", " "))

\* generate_settings_sheet
generate_settings_sheet(path, form_id_arg, form_title_arg) ==
    LET id == IF form_id_arg = None THEN DefaultFormId(path) ELSE form_id_arg[1]
        title == IF form_title_arg = None THEN DefaultFormTitle(id) ELSE form_title_arg[1]
    IN  DataFrame(<< [form_title |-> title, form_id |-> id] >>, <<"form_title", "form_id">>)

\* value labels extracted from the metadata by _read_file: an entry that is
\* a dict is taken as it is, an entry that names a label set is looked up in
\* metadata.value_labels and skipped when the set is not there.
RECURSIVE ExtractValueLabels(_, _, _)
ExtractValueLabels(items, label_sets, acc) ==
    IF items = <<>> THEN acc
    ELSE LET var_name == Head(items)[1]
             label_value == Head(items)[2]
             next == IF label_value.t = "dict"
                     THEN DictSet(acc, var_name, label_value.items)
                     ELSE IF label_value.t = "str" /\ DictHas(label_sets, label_value.s)
                     THEN DictSet(acc, var_name, DictGet(label_sets, label_value.s))
                     ELSE acc
         IN  ExtractValueLabels(Tail(items), label_sets, next)

\* ------------------------------------------------------------------------
\* State
\* ------------------------------------------------------------------------
VARIABLES
    arg_file_path,    \* data_to_xlsform(file_path, ...)
    arg_file_type,    \* Optional file_type argument
    arg_form_id,      \* Optional form_id argument
    arg_form_title,   \* Optional form_title argument
    exists,           \* os.path.exists(file_path)
    loader,           \* what pyreadstat returns for the file
    file_type,        \* self.file_type
    df,               \* self.df: sequence of [name, dtype], <<>> before loading
    metadata,         \* self.metadata
    variable_labels,  \* self.variable_labels
    value_labels,     \* self.value_labels
    enc_idx,          \* position of the encoding loop, 1..4
    attempts,         \* parse attempts made so far, in order
    sheets,           \* the frames built by to_xlsform
    workbook,         \* tabs written to the output file, in order
    out_state,        \* output file: "absent", "open", "saved"
    stdout,           \* messages printed
    err,              \* the exception raised to the caller, None if none
    pc                \* position of the call

vars == <<arg_file_path, arg_file_type, arg_form_id, arg_form_title, exists, loader,
          file_type, df, metadata, variable_labels, value_labels, enc_idx, attempts,
          sheets, workbook, out_state, stdout, err, pc>>

args == <<arg_file_path, arg_file_type, arg_form_id, arg_form_title, exists, loader>>
self == <<file_type, df, metadata, variable_labels, value_labels>>
output == <<sheets, workbook, out_state, stdout>>

NoMetadata == [column_names_to_labels |-> <<>>, variable_value_labels |-> <<>>,
               value_labels |-> <<>>]
NoSheets == [survey |-> DataFrame(<<>>, <<>>), choices |-> DataFrame(<<>>, <<>>),
             settings |-> DataFrame(<<>>, <<>>)]

\* the state when data_to_xlsform is called
InitWith(path, ftype, fid, ftitle, ex, ld) ==
    /\ arg_file_path = path
    /\ arg_file_type = ftype
    /\ arg_form_id = fid
    /\ arg_form_title = ftitle
    /\ exists = ex
    /\ loader = ld
    /\ file_type = <<>>
    /\ df = <<>>
    /\ metadata = NoMetadata
    /\ variable_labels = <<>>
    /\ value_labels = <<>>
    /\ enc_idx = 1
    /\ attempts = <<>>
    /\ sheets = NoSheets
    /\ workbook = <<>>
    /\ out_state = "absent"
    /\ stdout = <<>>
    /\ err = None
    /\ pc = "init"

\* ------------------------------------------------------------------------
\* DataToXLSForm.__init__
\* ------------------------------------------------------------------------
Raise(e) == err' = Some(e) /\ pc' = "raised"

\* the file does not exist
InitNotFound ==
    /\ pc = "init"
    /\ ~exists
    /\ Raise([type |-> "FileNotFoundError"])
    /\ UNCHANGED <<args, self, enc_idx, attempts, output>>

\* every extension but .sav taken as Stata
InferFileTypeDefaultStata(path) ==
    LET ext == Lower(splitext(path)[2])
    IN  IF ext = SAV THEN Some(SPSS) ELSE Some(STATA)

\* file type inferred from the extension
InferFileType(path) ==
    LET ext == Lower(splitext(path)[2])
    IN  IF ext = DTA THEN Some(STATA)
        ELSE IF ext = SAV THEN Some(SPSS)
        ELSE None

InitInferType ==
    /\ pc = "init"
    /\ exists
    /\ arg_file_type = None
    /\ InferFileType(arg_file_path) # None
    /\ file_type' = InferFileType(arg_file_path)[1]
    /\ pc' = "read"
    /\ UNCHANGED <<args, df, metadata, variable_labels, value_labels, enc_idx, attempts,
                   output, err>>

InitUnrecognized ==
    /\ pc = "init"
    /\ exists
    /\ arg_file_type = None
    /\ InferFileType(arg_file_path) = None
    /\ Raise([type |-> "ValueError", msg |-> "Cannot infer file type from extension"])
    /\ UNCHANGED <<args, self, enc_idx, attempts, output>>

InitGivenType ==
    /\ pc = "init"
    /\ exists
    /\ arg_file_type # None
    /\ file_type' = Lower(arg_file_type[1])
    /\ pc' = "read"
    /\ UNCHANGED <<args, df, metadata, variable_labels, value_labels, enc_idx, attempts,
                   output, err>>

\* ------------------------------------------------------------------------
\* DataToXLSForm._read_file
\* ------------------------------------------------------------------------
\* the ValueError that _read_file raises in place of any exception e
ReadError(e) ==
    [type |-> "ValueError", msg |-> "Error reading file", file_type |-> Upper(file_type),
     cause |-> e]

\* a read without fallback: the error of the first encoding that fails is raised
ReadDtaNoFallback ==
    /\ pc = "read"
    /\ file_type = STATA
    /\ LET encoding == encodings[enc_idx]
           result == loader.dta[enc_idx]
       IN  /\ attempts' = Append(attempts, [reader |-> "read_dta", encoding |-> encoding])
           /\ IF result.ok
              THEN /\ df' = result.df
                   /\ metadata' = result.metadata
                   /\ pc' = "extract"
                   /\ UNCHANGED <<enc_idx, err>>
              ELSE /\ Raise(ReadError(result.error))
                   /\ UNCHANGED <<df, metadata, enc_idx>>
    /\ UNCHANGED <<args, file_type, variable_labels, value_labels, output>>

\* one pass of the encoding loop: pyreadstat.read_dta with encodings[enc_idx]
ReadDta ==
    /\ pc = "read"
    /\ file_type = STATA
    /\ LET encoding == encodings[enc_idx]
           result == loader.dta[enc_idx]
       IN  /\ attempts' = Append(attempts, [reader |-> "read_dta", encoding |-> encoding])
           /\ IF result.ok
              THEN /\ df' = result.df
                   /\ metadata' = result.metadata
                   /\ pc' = "extract"
                   /\ UNCHANGED <<enc_idx, err>>
              ELSE IF encoding = encodings[Len(encodings)]
              THEN /\ Raise(ReadError(result.error))
                   /\ UNCHANGED <<df, metadata, enc_idx>>
              ELSE /\ enc_idx' = enc_idx + 1
                   /\ UNCHANGED <<df, metadata, err, pc>>
    /\ UNCHANGED <<args, file_type, variable_labels, value_labels, output>>

\* pyreadstat.read_sav
ReadSav ==
    /\ pc = "read"
    /\ file_type = SPSS
    /\ attempts' = Append(attempts, [reader |-> "read_sav", encoding |-> "default"])
    /\ IF loader.sav.ok
       THEN /\ df' = loader.sav.df
            /\ metadata' = loader.sav.metadata
            /\ pc' = "extract"
            /\ UNCHANGED err
       ELSE /\ Raise(ReadError(loader.sav.error))
            /\ UNCHANGED <<df, metadata>>
    /\ UNCHANGED <<args, file_type, variable_labels, value_labels, enc_idx, output>>

\* any other file type
ReadUnsupported ==
    /\ pc = "read"
    /\ file_type \notin {STATA, SPSS}
    /\ Raise(ReadError([type |-> "ValueError", msg |-> "Unsupported file type"]))
    /\ UNCHANGED <<args, self, enc_idx, attempts, output>>

\* variable labels and value labels taken from the metadata
ExtractMetadata ==
    /\ pc = "extract"
    /\ variable_labels' =
           IF metadata.column_names_to_labels # <<>>
           THEN metadata.column_names_to_labels
           ELSE variable_labels
    /\ value_labels' =
           ExtractValueLabels(metadata.variable_value_labels, metadata.value_labels,
                              value_labels)
    /\ pc' = "generate"
    /\ UNCHANGED <<args, file_type, df, metadata, enc_idx, attempts, output, err>>

\* ------------------------------------------------------------------------
\* DataToXLSForm.to_xlsform
\* ------------------------------------------------------------------------
\* the three sheets are generated
Generate ==
    /\ pc = "generate"
    /\ sheets' = [survey |-> generate_survey_sheet(df, variable_labels, value_labels),
                  choices |-> generate_choices_sheet(value_labels),
                  settings |-> generate_settings_sheet(arg_file_path, arg_form_id,
                                                       arg_form_title)]
    /\ pc' = "open"
    /\ UNCHANGED <<args, self, enc_idx, attempts, workbook, out_state, stdout, err>>

\* pd.ExcelWriter(output_path): the output file is opened for writing
OpenWriter ==
    /\ pc = "open"
    /\ out_state' = "open"
    /\ pc' = "write_survey"
    /\ UNCHANGED <<args, self, enc_idx, attempts, sheets, workbook, stdout, err>>

\* frame.to_excel(writer, sheet_name, index=False): header row, then the rows
Tab(sheet_name, frame) == [name |-> sheet_name, header |-> frame.columns, rows |-> frame.rows]

WriteTab(at, sheet_name, frame, then) ==
    /\ pc = at
    /\ workbook' = Append(workbook, Tab(sheet_name, frame))
    /\ pc' = then
    /\ UNCHANGED <<args, self, enc_idx, attempts, sheets, out_state, stdout, err>>

WriteSurvey == WriteTab("write_survey", "survey", sheets.survey, "write_choices")
WriteChoices == WriteTab("write_choices", "choices", sheets.choices, "write_settings")
WriteSettings == WriteTab("write_settings", "settings", sheets.settings, "close")

\* leaving the with block saves the workbook
CloseWriter ==
    /\ pc = "close"
    /\ out_state' = "saved"
    /\ pc' = "print"
    /\ UNCHANGED <<args, self, enc_idx, attempts, sheets, workbook, stdout, err>>

\* the output path cannot be opened, or the workbook cannot be saved
WriteFailure ==
    /\ pc \in {"open", "close"}
    /\ Raise([type |-> "OSError"])
    /\ UNCHANGED <<args, self, enc_idx, attempts, output>>

\* print(f"XLSForm successfully created: {output_path}")
PrintCreated ==
    /\ pc = "print"
    /\ stdout' = Append(stdout, "XLSForm successfully created")
    /\ pc' = "done"
    /\ UNCHANGED <<args, self, enc_idx, attempts, sheets, workbook, out_state, err>>

\* ------------------------------------------------------------------------
\* Inputs
\* ------------------------------------------------------------------------
Names == {"age", "gender", "yes_no"}
Dtypes == {"int64", "int32", "float64", "float32", "bool", "object", "datetime64[ns]"}

\* sequences of at most n distinct elements of S
DistinctSeqs(S, n) ==
    {q \in UNION {[1..k -> S] : k \in 0..n} : \A i, j \in DOMAIN q : q[i] = q[j] => i = j}

\* tables: columns with distinct names
Tables ==
    UNION {{[i \in DOMAIN ns |-> [name |-> ns[i], dtype |-> dt[i]]] : dt \in [DOMAIN ns -> Dtypes]}
           : ns \in DistinctSeqs(Names, MaxCols)}

\* the table of the README example
ExampleTable ==
    << [name |-> "age", dtype |-> "int64"],
       [name |-> "gender", dtype |-> "int64"],
       [name |-> "notes", dtype |-> "object"] >>

\* value-label codes and their labels
IntCode(n) == [sub |-> "int", whole |-> n, tenths |-> 0]
FloatCode(n, t) == [sub |-> "float", whole |-> n, tenths |-> t]
Codes == {IntCode(1), IntCode(2), FloatCode(1, 0), FloatCode(2, 5)}
CodeValue(c) == 10 * c.whole + c.tenths
CodeLabel(c) ==
    CASE CodeValue(c) = 10 -> "Male"
      [] CodeValue(c) = 20 -> "Female"
      [] OTHER -> "Other"

\* dicts of at most MaxCodes codes; keys that are equal as numbers (1 and 1.0)
\* are one key
LabelDicts ==
    {[i \in DOMAIN q |-> <<q[i], CodeLabel(q[i])>>] :
        q \in {r \in DistinctSeqs(Codes, MaxCodes) :
                  \A i, j \in DOMAIN r : CodeValue(r[i]) = CodeValue(r[j]) => i = j}}

IntDict == << <<IntCode(1), "Male">>, <<IntCode(2), "Female">> >>

Absent == [t |-> "absent"]

\* a dict holding the entries of q that are not Absent, in order
Present(q) == SelectSeq(q, LAMBDA e : e[2] # Absent)

Reverse(q) == [i \in DOMAIN q |-> q[Len(q) + 1 - i]]

Metadata(labels, vvl, sets) ==
    [column_names_to_labels |-> labels, variable_value_labels |-> vvl, value_labels |-> sets]

\* loader results
Parsed(table, meta) == [ok |-> TRUE, df |-> table, metadata |-> meta]
Failed(e) == [ok |-> FALSE, error |-> e]

\* a file that every reader parses to the same table and metadata
GoodFile(table, meta) ==
    [dta |-> [i \in DOMAIN encodings |-> Parsed(table, meta)], sav |-> Parsed(table, meta)]

ExampleMetadata ==
    Metadata(<< <<"gender", PyStr("Gender")>> >>, << <<"gender", PyDict(IntDict)>> >>, <<>>)

ExampleFile == GoodFile(ExampleTable, ExampleMetadata)

SurveyPath == <<"s", "u", "r", "v", "e", "y", "_", "2", "0", "2", "4", ".", "d", "t", "a">>

Paths ==
    { <<"s", "u", "r", "v", "e", "y", "_", "2", "0", "2", "4", ".", "d", "t", "a">>,
      <<"d", "a", "t", "a", "/", "m", "y", "_", "d", "a", "t", "a", ".", "s", "a", "v">>,
      <<"X", ".", "D", "T", "A">>,
      <<"S", "t", "u", "d", "y", ".", "S", "a", "v">>,
      <<"r", "e", "p", "o", "r", "t", ".", "c", "s", "v">>,
      <<"n", "o", "e", "x", "t">>,
      <<".", "d", "t", "a">>,
      <<"d", "i", "r", ".", "d", "t", "a", "/", "f", "i", "l", "e">>,
      <<"a", ".", "t", "a", "r", ".", "d", "t", "a">>,
      <<"q", "1", "a", "_", "m", "y", "D", "a", "t", "a", ".", "d", "t", "a">> }

\* paths <stem>.dta with a stem of at most MaxStem characters
StemChars == {"a", "B", "_", "1", "."}
StemPaths == {q \o DTA : q \in UNION {[1..k -> StemChars] : k \in 1..MaxStem}}

FileTypes == {STATA, SPSS, <<"S", "t", "a", "t", "a">>, <<"c", "s", "v">>}
FormIds == {<<>>, <<"m", "y", "_", "f", "o", "r", "m">>, <<"I", "D", "2", "b">>}
FormTitles == {<<"M", "y", " ", "F", "o", "r", "m">>}
Optional(S) == {None} \cup {Some(v) : v \in S}

\* ------------------------------------------------------------------------
\* Initial states: one call of data_to_xlsform, its inputs drawn from the
\* sets above, one group of inputs varied at a time.
\* ------------------------------------------------------------------------
\* tables of every shape and dtype, each column without value labels, with an
\* empty mapping or with a mapping of integer codes
InitSchema ==
    \E table \in Tables :
      \E vl \in [DOMAIN table -> {Absent, PyDict(<<>>), PyDict(IntDict)}] :
        InitWith(SurveyPath, None, None, None, TRUE,
                 GoodFile(table,
                          Metadata(<<>>, Present([i \in DOMAIN table |-> <<table[i].name, vl[i]>>]),
                                   <<>>)))

\* value-label mappings of every content, met in either order
InitChoices ==
    \E a, g \in {Absent} \cup {PyDict(d) : d \in LabelDicts} :
      \E vvl \in {Present(<< <<"age", a>>, <<"gender", g>> >>),
                  Present(<< <<"gender", g>>, <<"age", a>> >>)} :
        InitWith(SurveyPath, None, None, None, TRUE,
                 GoodFile(ExampleTable, Metadata(<<>>, vvl, <<>>)))

\* metadata whose variable_value_labels name label sets
InitLabelSets ==
    \E a, g \in {Absent, PyStr("sexlbl"), PyStr("nolbl"), PyDict(IntDict)} :
      \E sets \in {<<>>, << <<"sexlbl", <<>> >> >>, << <<"sexlbl", IntDict>> >>} :
        InitWith(SurveyPath, None, None, None, TRUE,
                 GoodFile(ExampleTable,
                          Metadata(<<>>, Present(<< <<"age", a>>, <<"gender", g>> >>), sets)))

\* variable labels: no entry, None, empty or a text
InitLabels ==
    \E table \in {t \in Tables : \A i \in DOMAIN t : t[i].dtype = "object"} :
      \E lb \in [DOMAIN table -> {Absent, PyNone, PyStr(""), PyStr("Question text")}] :
        InitWith(SurveyPath, None, None, None, TRUE,
                 GoodFile(table,
                          Metadata(Present([i \in DOMAIN table |-> <<table[i].name, lb[i]>>]),
                                   <<>>, <<>>)))

\* paths and overrides
InitSettings ==
    \E path \in Paths \cup StemPaths, ftype \in {None, Some(STATA)},
       fid \in Optional(FormIds), ftitle \in Optional(FormTitles) :
        InitWith(path, ftype, fid, ftitle, TRUE, ExampleFile)

\* what decoding the file with an encoding gives: the labels read differ
DecodedMetadata(encoding) ==
    Metadata(<< <<"gender", PyStr("Gender, read as " \o encoding)>> >>,
             << <<"gender", PyDict(IntDict)>> >>, <<>>)

DtaResults(i) ==
    { Parsed(ExampleTable, DecodedMetadata(encodings[i])),
      Failed([type |-> "UnicodeDecodeError", encoding |-> encodings[i]]),
      Failed([type |-> "ReadstatError", encoding |-> encodings[i]]) }

SavResults ==
    { Parsed(ExampleTable, ExampleMetadata), Failed([type |-> "ReadstatError"]) }

\* missing files, file types and files that fail to parse
InitLoader ==
    \E path \in Paths, ftype \in Optional(FileTypes), ex \in BOOLEAN,
       d1 \in DtaResults(1), d2 \in DtaResults(2), d3 \in DtaResults(3), d4 \in DtaResults(4),
       sv \in SavResults :
        InitWith(path, ftype, None, None, ex, [dta |-> <<d1, d2, d3, d4>>, sav |-> sv])

Init ==
    \/ InitSchema
    \/ InitChoices
    \/ InitLabelSets
    \/ InitLabels
    \/ InitSettings
    \/ InitLoader

Next ==
    \/ InitNotFound
    \/ InitInferType
    \/ InitUnrecognized
    \/ InitGivenType
    \/ ReadDta
    \/ ReadSav
    \/ ReadUnsupported
    \/ ExtractMetadata
    \/ Generate
    \/ OpenWriter
    \/ WriteSurvey
    \/ WriteChoices
    \/ WriteSettings
    \/ CloseWriter
    \/ WriteFailure
    \/ PrintCreated

Spec == Init /\ [][Next]_vars

\* ------------------------------------------------------------------------
\* Properties
\* ------------------------------------------------------------------------
\* the three sheets have been generated
Generated ==
    pc \in {"open", "write_survey", "write_choices", "write_settings", "close", "print", "done"}

SurveyRows == sheets.survey.rows
ChoicesRows == sheets.choices.rows
SettingsRow == sheets.settings.rows[1]

SelectOneOf(column) == "select_one " \o column \o "_choices"

\* the column has a value-label mapping with at least one (code, label) pair
HasNonEmptyMapping(column) ==
    DictHas(value_labels, column) /\ DictGet(value_labels, column) # <<>>

\* C1: the survey row of a column has type select_one <column>_choices if and
\* only if the column has a non-empty value-label mapping; a column whose
\* mapping has no pairs is not categorical.
C1_SelectOneIffNonEmptyMapping ==
    Generated =>
        \A i \in DOMAIN df :
            (SurveyRows[i].type = SelectOneOf(df[i].name)) <=> HasNonEmptyMapping(df[i].name)

\* C2: every survey row of type select_one <column>_choices has at least one
\* row in the choices sheet whose list_name is <column>_choices.
C2_SelectOneHasChoices ==
    Generated =>
        \A i \in DOMAIN SurveyRows : \A k \in DOMAIN df :
            SurveyRows[i].type = SelectOneOf(df[k].name) =>
                \E j \in DOMAIN ChoicesRows : ChoicesRows[j].list_name = df[k].name \o "_choices"

\* C3: a column without a value-label mapping gets its type from its storage
\* kind: integer gives integer, floating point gives decimal, boolean gives
\* select_one yes_no, anything else gives text; no error is raised.
C3_StorageKindRules ==
    Generated =>
        /\ err = None
        /\ \A i \in DOMAIN df :
             ~DictHas(value_labels, df[i].name) =>
                /\ SurveyRows[i].type \in {"integer", "decimal", "select_one yes_no", "text"}
                /\ SurveyRows[i].type = "integer" <=> df[i].dtype \in {"int64", "int32"}
                /\ SurveyRows[i].type = "decimal" <=> df[i].dtype \in {"float64", "float32"}
                /\ SurveyRows[i].type = "select_one yes_no" <=> df[i].dtype \in {"bool"}
                /\ SurveyRows[i].type = "text" <=> df[i].dtype \in {"object", "datetime64[ns]"}

\* a boolean column and a datetime column, neither with value labels, typed
C3_Witness ==
    /\ Generated
    /\ \E i, j \in DOMAIN df :
         /\ ~DictHas(value_labels, df[i].name) /\ ~DictHas(value_labels, df[j].name)
         /\ df[i].dtype = "bool" /\ SurveyRows[i].type = "select_one yes_no"
         /\ df[j].dtype = "datetime64[ns]" /\ SurveyRows[j].type = "text"

\* C4: the names of the survey rows are the column names of the table, in
\* the table's order, one row per column, each name once.
C4_OneRowPerColumn ==
    Generated =>
        /\ [i \in DOMAIN SurveyRows |-> SurveyRows[i].name] = [i \in DOMAIN df |-> df[i].name]
        /\ \A i, j \in DOMAIN SurveyRows : SurveyRows[i].name = SurveyRows[j].name => i = j

\* a table of several columns, only some of them labelled, has its rows
C4_Witness ==
    /\ Generated
    /\ Len(df) >= 2
    /\ Len(SurveyRows) = Len(df)
    /\ \E i, j \in DOMAIN df :
         DictHas(variable_labels, df[i].name) /\ ~DictHas(variable_labels, df[j].name)

\* the column has a variable label: an entry that is a non-empty text
HasLabel(column) ==
    DictHas(variable_labels, column) /\ Truthy(DictGet(variable_labels, column))

\* C5: the label of a survey row is the column's variable label if there is
\* one and the column name otherwise (also when the entry is None or empty);
\* it is never empty.
C5_LabelOrName ==
    Generated =>
        \A i \in DOMAIN df :
            /\ SurveyRows[i].label =
                   IF HasLabel(df[i].name)
                   THEN DictGet(variable_labels, df[i].name)
                   ELSE PyStr(df[i].name)
            /\ Truthy(SurveyRows[i].label)

\* C6: the choices sheet starts with the rows (yes_no, "1", "Yes") and
\* (yes_no, "0", "No"), and no other row has list_name yes_no.
C6_YesNoRows ==
    Generated =>
        /\ Len(ChoicesRows) >= 2
        /\ ChoicesRows[1] = [list_name |-> "yes_no", name |-> "1", label |-> "Yes"]
        /\ ChoicesRows[2] = [list_name |-> "yes_no", name |-> "0", label |-> "No"]
        /\ \A j \in DOMAIN ChoicesRows : ChoicesRows[j].list_name = "yes_no" => j <= 2

\* a column named yes_no has value labels and its rows are in the sheet
C6_Witness ==
    /\ Generated
    /\ HasNonEmptyMapping("yes_no")
    /\ \E j \in DOMAIN ChoicesRows : j > 2 /\ ChoicesRows[j].list_name = "yes_no_choices"

\* the string form the claim gives a code: no decimal point for an integral code
IntegralCodeString(c) ==
    IF c.tenths = 0 THEN StrInt(c.whole) ELSE StrInt(c.whole) \o "." \o Digits[c.tenths + 1]

RECURSIVE ExpectedChoiceRows(_)
ExpectedChoiceRows(vlabels) ==
    IF vlabels = <<>> THEN <<>>
    ELSE LET column == Head(vlabels)[1]
             pairs == Head(vlabels)[2]
         IN  [j \in DOMAIN pairs |->
                 [list_name |-> column \o "_choices",
                  name |-> IntegralCodeString(pairs[j][1]),
                  label |-> pairs[j][2]]]
             \o ExpectedChoiceRows(Tail(vlabels))

\* C7: after the two yes_no rows come, mapping by mapping in the order met and
\* pair by pair in the mapping's order, the rows (<column>_choices, string of
\* the code, label), an integral code written without a decimal point
\* whatever its numeric type.
C7_ChoiceRowsIntegralCodes ==
    Generated =>
        SubSeq(ChoicesRows, 3, Len(ChoicesRows)) = ExpectedChoiceRows(value_labels)

\* the file name of a path: what follows the last "/"
FileName(path) ==
    LET seps == {k \in DOMAIN path : path[k] = "/"}
    IN  [i \in 1..(Len(path) - (IF seps = {} THEN 0 ELSE CHOOSE k \in seps : \A m \in seps : m <= k))
            |-> path[i + (IF seps = {} THEN 0 ELSE CHOOSE k \in seps : \A m \in seps : m <= k)]]

\* id is the file name of path without its extension: the file name is id
\* followed by nothing or by a dot and characters that are not dots, the dots
\* that start a file name not counting as the start of an extension
IsBaseNameOf(id, path) ==
    LET name == FileName(path)
        n == Len(id)
    IN  /\ n <= Len(name)
        /\ \A i \in 1..n : id[i] = name[i]
        /\ \A k \in (n + 2)..Len(name) : name[k] # "."
        /\ IF n < Len(name)
           THEN name[n + 1] = "." /\ \E k \in 1..n : id[k] # "."
           ELSE \A k \in 1..n : id[k] = "." => \A m \in 1..k : id[m] = "."

\* the first letter of every word upper-cased, nothing else changed
CapitalizeWords(s) ==
    [i \in DOMAIN s |-> IF i = 1 \/ s[i - 1] = " " THEN UpperChar(s[i]) ELSE s[i]]

\* the form id of the settings row: the override, else the base name
SettingsFormId ==
    /\ Len(sheets.settings.rows) = 1
    /\ IF arg_form_id # None
       THEN SettingsRow.form_id = arg_form_id[1]
       ELSE IsBaseNameOf(SettingsRow.form_id, arg_file_path)

\* C8 as stated: without a title override the form title is the form id with
\* underscores replaced by spaces and the first letter of each word
\* capitalized.
C8_TitleCapitalizesWords ==
    Generated =>
        /\ SettingsFormId
        /\ SettingsRow.form_title =
               IF arg_form_title # None
               THEN arg_form_title[1]
               ELSE CapitalizeWords(Replace(SettingsRow.form_id, "_", " "))

\* C8 amended: one settings row; form_id is the override or the base name of
\* the path; form_title is the override or the form id with underscores
\* replaced by spaces and every letter upper-cased when it starts the text or
\* follows a character that is not a letter, and lower-cased when it follows
\* a letter.  survey_2024.dta gives survey_2024 and Survey 2024.
C8_SettingsRow ==
    Generated =>
        LET id == SettingsRow.form_id
            title == SettingsRow.form_title
        IN  /\ SettingsFormId
            /\ arg_form_title # None => title = arg_form_title[1]
            /\ arg_form_title = None =>
                 /\ Len(title) = Len(id)
                 /\ \A i \in DOMAIN id :
                      title[i] = IF id[i] = "_" THEN " "
                                 ELSE IF i > 1 /\ IsCased(id[i - 1]) THEN LowerChar(id[i])
                                 ELSE UpperChar(id[i])
            /\ (arg_file_path = SurveyPath /\ arg_form_id = None /\ arg_form_title = None) =>
                 /\ id = <<"s", "u", "r", "v", "e", "y", "_", "2", "0", "2", "4">>
                 /\ title = <<"S", "u", "r", "v", "e", "y", " ", "2", "0", "2", "4">>

\* a path whose base name has a capital inside a word and a letter after a
\* digit, converted without overrides
C8_Witness ==
    /\ Generated
    /\ arg_form_id = None /\ arg_form_title = None
    /\ arg_file_path = <<"q", "1", "a", "_", "m", "y", "D", "a", "t", "a", ".", "d", "t", "a">>
    /\ SettingsRow.form_id = <<"q", "1", "a", "_", "m", "y", "D", "a", "t", "a">>
    /\ SettingsRow.form_title = <<"Q", "1", "A", " ", "M", "y", "d", "a", "t", "a">>

\* the file name of path ends with the extension ext
HasExtension(path, ext) ==
    LET name == FileName(path)
        stem == Len(name) - Len(ext)
    IN  /\ stem > 0
        /\ \A i \in DOMAIN ext : name[stem + i] = ext[i]
        /\ \E k \in 1..stem : name[k] # "."

NotFound == [type |-> "FileNotFoundError"]
UnrecognizedFormat == [type |-> "ValueError", msg |-> "Cannot infer file type from extension"]

\* nothing has been parsed and the output file has not been touched
NothingDone == attempts = <<>> /\ out_state = "absent" /\ workbook = <<>> /\ df = <<>>

\* C9 as stated: a path that does not exist fails with NotFound, an existing
\* path whose extension is neither .dta nor .sav and no file type fails with
\* UnrecognizedFormat, in both cases with nothing parsed or written.
C9_ValidationFirstExactExtension ==
    pc # "init" =>
        /\ ~exists => err = Some(NotFound) /\ NothingDone
        /\ (exists /\ arg_file_type = None
              /\ ~HasExtension(arg_file_path, DTA) /\ ~HasExtension(arg_file_path, SAV)) =>
                 err = Some(UnrecognizedFormat) /\ NothingDone

\* C9 amended: the same, the extension being compared without regard to the
\* case of its letters (.DTA and .Sav are recognized).
C9_ValidationFirst ==
    pc # "init" =>
        /\ ~exists => err = Some(NotFound) /\ NothingDone
        /\ (exists /\ arg_file_type = None
              /\ ~HasExtension(Lower(arg_file_path), DTA)
              /\ ~HasExtension(Lower(arg_file_path), SAV)) =>
                 err = Some(UnrecognizedFormat) /\ NothingDone

\* a call with an existing .csv path and no file type has failed
C9_Witness ==
    /\ pc = "raised"
    /\ exists
    /\ arg_file_type = None
    /\ arg_file_path = <<"r", "e", "p", "o", "r", "t", ".", "c", "s", "v">>
    /\ err = Some(UnrecognizedFormat)
    /\ NothingDone

\* C10: a conversion that succeeds has written the tabs survey, choices and
\* settings, in this order, with the headers (type, name, label),
\* (list_name, name, label) and (form_title, form_id); the message is printed
\* only after the three tabs are written.
C10_ThreeTabsFixedHeaders ==
    /\ pc = "done" =>
         /\ [i \in DOMAIN workbook |-> workbook[i].name] = <<"survey", "choices", "settings">>
         /\ [i \in DOMAIN workbook |-> workbook[i].header] =
                << <<"type", "name", "label">>, <<"list_name", "name", "label">>,
                   <<"form_title", "form_id">> >>
    /\ stdout # <<>> => Len(workbook) = 3 /\ out_state = "saved"

\* ------------------------------------------------------------------------
\* The encoding loop of _read_file
\* ------------------------------------------------------------------------
\* Stata reads whose parse succeeds or fails encoding by encoding, the file
\* type inferred from the extension or given, and beside them one call for
\* each other way through __init__ and _read_file
InitEncodings ==
    \/ \E call \in { <<SurveyPath, None>>,
                     <<<<"X", ".", "D", "T", "A">>, None>>,
                     <<<<"r", "e", "p", "o", "r", "t", ".", "c", "s", "v">>,
                       Some(<<"S", "t", "a", "t", "a">>)>> },
          d1 \in DtaResults(1), d2 \in DtaResults(2), d3 \in DtaResults(3),
          d4 \in DtaResults(4) :
            InitWith(call[1], call[2], None, None, TRUE,
                     [dta |-> <<d1, d2, d3, d4>>, sav |-> Parsed(ExampleTable, ExampleMetadata)])
    \/ \E path \in {SurveyPath, <<"S", "t", "u", "d", "y", ".", "S", "a", "v">>,
                    <<"r", "e", "p", "o", "r", "t", ".", "c", "s", "v">>},
          ftype \in {None, Some(SPSS), Some(<<"c", "s", "v">>)}, ex \in BOOLEAN, sv \in SavResults :
            InitWith(path, ftype, None, None, ex,
                     [dta |-> [i \in DOMAIN encodings |-> Parsed(ExampleTable, ExampleMetadata)],
                      sav |-> sv])

\* the loop body runs whenever the loop stands at an encoding
LoaderSpec == InitEncodings /\ [][Next]_vars /\ WF_vars(ReadDta)

\* the order in which the encodings are to be tried
EncodingOrder == <<"utf-8", "windows-1252", "iso-8859-1", "latin1">>

\* the failure raised when no encoding parses: the last attempt's error,
\* in a ValueError that names the file type
AllEncodingsFailed ==
    [type |-> "ValueError", msg |-> "Error reading file",
     file_type |-> <<"S", "T", "A", "T", "A">>, cause |-> loader.dta[4].error]

\* the encoding loop is over
ReadOver == pc \notin {"init", "read"}

\* the state of the encoding loop of a Stata read
EncodingLoopState ==
    file_type = STATA =>
        LET n == Len(attempts)
        IN  /\ n <= 4
            /\ \A i \in 1..n : attempts[i] = [reader |-> "read_dta", encoding |-> EncodingOrder[i]]
            /\ \A i, j \in 1..n : attempts[i].encoding = attempts[j].encoding => i = j
            /\ \A i \in 1..(n - 1) : ~loader.dta[i].ok
            /\ pc = "read" => n < 4 /\ enc_idx = n + 1 /\ (n > 0 => ~loader.dta[n].ok)
            /\ ReadOver =>
                 /\ n >= 1
                 /\ IF loader.dta[n].ok
                    THEN /\ df = loader.dta[n].df
                         /\ metadata = loader.dta[n].metadata
                         /\ err \in {None, Some([type |-> "OSError"])}
                         /\ pc \notin {"extract", "raised"} =>
                              variable_labels = loader.dta[n].metadata.column_names_to_labels
                    ELSE /\ n = 4
                         /\ pc = "raised"
                         /\ err = Some(AllEncodingsFailed)
                         /\ df = <<>> /\ metadata = NoMetadata

\* C11: a Stata read tries utf-8, windows-1252, iso-8859-1, latin1 in this
\* order, each at most once; it stops at the first encoding that parses and
\* keeps that attempt's table and metadata; when all four fail it raises the
\* last attempt's error in a ValueError that names the file type; the loop
\* ends after at most four attempts.
C11_EncodingFallback ==
    /\ []EncodingLoopState
    /\ (pc = "read" /\ file_type = STATA) ~> ReadOver

\* utf-8 and windows-1252 failed, iso-8859-1 parsed and its labels are used,
\* latin1, which would have parsed too, was not tried
C11_Witness ==
    /\ pc = "done"
    /\ file_type = STATA
    /\ ~loader.dta[1].ok /\ ~loader.dta[2].ok /\ loader.dta[3].ok /\ loader.dta[4].ok
    /\ [i \in DOMAIN attempts |-> attempts[i].encoding] = <<"utf-8", "windows-1252", "iso-8859-1">>
    /\ variable_labels = << <<"gender", PyStr("Gender, read as iso-8859-1")>> >>
    /\ sheets.survey.rows[2].label = PyStr("Gender, read as iso-8859-1")

====
